---- MODULE Spec2Model ----
(***************************************************************************)
(* Model of gensim/summarization/mz_entropy.py: the Montemurro-Zanette     *)
(* entropy keyword extractor (mz_keywords and its helpers).                *)
(*                                                                         *)
(* Numbers.  The program computes in IEEE doubles.  The model computes in  *)
(* exact rationals [num, den] whose unit is one thousandth of a bit; a     *)
(* denominator of 0 is a non-finite double: 0/0 is NaN, n/0 is +-inf.      *)
(* np.log2 of an integer is read from a table rounded to that unit, and    *)
(* np.log2 of a quotient c/t is the difference of the two table entries.   *)
(* A log-space quantity (the result of __log_combinations) is carried as   *)
(* its antilogarithm, the binomial coefficient itself, 0 standing for -inf.*)
(***************************************************************************)
EXTENDS Integers, Sequences, FiniteSets, TLC

\* ------------------------------------------------------------------ bounds
MaxLen == 4        \* longest document over the whole alphabet
MaxRepeat == 8     \* longest document made of one repeated word
MaxBlock == 5      \* largest blocksize tried

\* ------------------------------------------------------------ words, text
NL == "\n"

Alphabet == { <<"a">>, <<"a", "b">>, <<"b">> }

CharRank(c) == CASE c = NL -> 0 [] c = "a" -> 1 [] c = "b" -> 2

\* str.__lt__: lexicographic order on character sequences
RECURSIVE StrLess(_, _)
StrLess(u, v) ==
    IF Len(v) = 0 THEN FALSE
    ELSE IF Len(u) = 0 THEN TRUE
    ELSE IF Head(u) = Head(v) THEN StrLess(Tail(u), Tail(v))
    ELSE CharRank(Head(u)) < CharRank(Head(v))

\* sorted(set(words))
RECURSIVE SortedAsc(_)
SortedAsc(S) ==
    IF S = {} THEN << >>
    ELSE LET least == CHOOSE x \in S : \A y \in S : ~StrLess(y, x)
         IN  <<least>> \o SortedAsc(S \ {least})

SortedVocab(ws) == SortedAsc({ ws[j] : j \in 1..Len(ws) })

\* word2ind[word] (1-based here)
Word2Ind(voc, w) == CHOOSE j \in 1..Len(voc) : voc[j] = w

Min(a, b) == IF a < b THEN a ELSE b

\* ---------------------------------------------------------------- numbers
Rat(n, d) == [num |-> n, den |-> d]
Zero == Rat(0, 1)
NaN == Rat(0, 0)
IsNaN(x) == x.den = 0 /\ x.num = 0
IsFinite(x) == x.den > 0

Abs(n) == IF n < 0 THEN -n ELSE n
Sign(n) == IF n < 0 THEN -1 ELSE IF n > 0 THEN 1 ELSE 0

RECURSIVE GCD(_, _)
GCD(a, b) == IF b = 0 THEN a ELSE GCD(b, a % b)

\* lowest terms, positive denominator; +-inf as +-1/0
Norm(x) ==
    IF x.den = 0 THEN Rat(Sign(x.num), 0)
    ELSE LET s == IF x.den < 0 THEN -1 ELSE 1
             g == GCD(Abs(x.num), Abs(x.den))
         IN  Rat((s * x.num) \div g, (s * x.den) \div g)

\* IEEE addition: NaN absorbs, inf + (-inf) is NaN
RatAdd(a, b) ==
    IF IsNaN(a) \/ IsNaN(b) THEN NaN
    ELSE IF a.den = 0 /\ b.den = 0 THEN (IF a.num = b.num THEN a ELSE NaN)
    ELSE IF a.den = 0 THEN a
    ELSE IF b.den = 0 THEN b
    ELSE LET g == GCD(a.den, b.den)
         IN  Norm(Rat(a.num * (b.den \div g) + b.num * (a.den \div g),
                      (a.den \div g) * b.den))

\* IEEE multiplication: NaN absorbs, 0 * inf is NaN
RatMul(a, b) ==
    IF a.den = 0 \/ b.den = 0 THEN Rat(Sign(a.num) * Sign(b.num), 0)
    ELSE LET g1 == GCD(Abs(a.num), b.den)
             g2 == GCD(Abs(b.num), a.den)
         IN  Norm(Rat((a.num \div g1) * (b.num \div g2),
                      (a.den \div g2) * (b.den \div g1)))

RatNeg(a) == Rat(-a.num, a.den)

\* a/b < c/d for b, d > 0, by quotients and remainders
RECURSIVE FracLess(_, _, _, _)
FracLess(a, b, c, d) ==
    LET qa == a \div b
        qc == c \div d
        ra == a % b
        rc == c % d
    IN  IF qa # qc THEN qa < qc
        ELSE IF rc = 0 THEN FALSE
        ELSE IF ra = 0 THEN TRUE
        ELSE FracLess(d, rc, b, ra)

\* IEEE <: false as soon as one side is NaN
RatLess(a, b) ==
    /\ ~IsNaN(a)
    /\ ~IsNaN(b)
    /\ IF a.den = 0 THEN a.num < 0 /\ ~(b.den = 0 /\ b.num < 0)
       ELSE IF b.den = 0 THEN b.num > 0
       ELSE FracLess(a.num, a.den, b.num, b.den)

\* IEEE >
RatGreater(a, b) == RatLess(b, a)

RECURSIVE RatSum(_)
RatSum(xs) == IF Len(xs) = 0 THEN Zero ELSE RatAdd(Head(xs), RatSum(Tail(xs)))

\* np.log2 of the integers 1..12, in thousandths of a bit
Log2Milli == <<0, 1000, 1585, 2000, 2322, 2585, 2807, 3000, 3170, 3322, 3459, 3585>>

\* p * np.log2(p) for p = c / t with t > 0; 0 * (-inf) is NaN
PLogP(c, t) ==
    IF c = 0 THEN NaN ELSE Norm(Rat(c * (Log2Milli[c] - Log2Milli[t]), t))

\* np.nan_to_num
NanToNum(x) == IF IsNaN(x) THEN Zero ELSE x

\* ------------------------------------------------- null-hypothesis model
RECURSIVE Factorial(_)
Factorial(n) == IF n <= 0 THEN 1 ELSE n * Factorial(n - 1)

\* __log_combinations_inner(n, m), carried as its antilogarithm n!/m!(n-m)!.
\* For m > n the first argument of betaln is an integer <= 0, betaln is +inf
\* and the logarithm is -inf: antilogarithm 0.
LogCombinations(n, m) ==
    IF m > n THEN 0 ELSE Factorial(n) \div (Factorial(m) * Factorial(n - m))

\* marginal_prob(n, m): np.exp(lc(n, m) + lc(n_words - n, blocksize - m)
\*                             - lc(n_words, blocksize))
MarginalProb(bsize, nwords, n, m) ==
    LET c1 == LogCombinations(n, m)
        c2 == LogCombinations(nwords - n, bsize - m)
        c3 == LogCombinations(nwords, bsize)
    IN  IF c3 = 0
        THEN (IF c1 * c2 = 0 THEN NaN ELSE Rat(1, 0))   \* -inf + inf, finite + inf
        ELSE Norm(Rat(c1 * c2, c3))

\* faulty variant of Element: the per-term frequency taken over the block size, p = m / B
ElementOverBlocksize(bsize, nwords, n, m) ==
    RatMul(PLogP(m, bsize), MarginalProb(bsize, nwords, n, m))

\* elements = (p * np.log2(p)) * marginal(n, m), p = m / n, for one m
Element(bsize, nwords, n, m) ==
    RatMul(PLogP(m, n), MarginalProb(bsize, nwords, n, m))

\* The body of analytic_entropy past the cache lookup:
\* m = np.arange(1, min(blocksize, n) + 1); result = -n_blocks * elements.sum()
AnalyticFormula(bsize, nblocks, nwords, n) ==
    LET top == Min(bsize, n)
        elements == [m \in 1..top |-> Element(bsize, nwords, n, m)]
    IN  RatMul(Rat(-nblocks, 1), RatSum(elements))

\* faulty variant of NewCache: one dict shared by all calls, as a module-level cache
KeptCache(stale) == (1 :> Zero) @@ stale

\* cache = {1: 0.0}, a new dict for every call of __analytic_entropy; what an
\* earlier invocation left behind is not carried over
NewCache(stale) == (1 :> Zero)

\* cache[n] = result
CacheStore(c, n, r) == (n :> r) @@ c

\* ------------------------------------------------------------- counting
\* faulty variant of CountInto: the cell is set to 1 instead of incremented
RECURSIVE CountIntoOnce(_, _, _)
CountIntoOnce(counts, voc, slice) ==
    IF Len(slice) = 0 THEN counts
    ELSE CountIntoOnce([counts EXCEPT ![CHOOSE j \in 1..Len(voc) : voc[j] = Head(slice)] = 1],
                       voc, Tail(slice))

\* for word in words[i: i + blocksize]: counts[word2ind[word]] += 1
RECURSIVE CountInto(_, _, _)
CountInto(counts, voc, slice) ==
    IF Len(slice) = 0 THEN counts
    ELSE CountInto([counts EXCEPT ![Word2Ind(voc, Head(slice))] = @ + 1],
                   voc, Tail(slice))

\* faulty variant of BlockCounts: the slice stops one word early, words[i: i + blocksize - 1]
BlockCountsShort(ws, voc, from, bsize) ==
    CountInto([j \in 1..Len(voc) |-> 0], voc,
              SubSeq(ws, from + 1, Min(from + bsize - 1, Len(ws))))

\* one pass of the loop body, for the block that starts after position from
BlockCounts(ws, voc, from, bsize) ==
    CountInto([j \in 1..Len(voc) |-> 0], voc,
              SubSeq(ws, from + 1, Min(from + bsize, Len(ws))))

RECURSIVE IntSum(_)
IntSum(xs) == IF Len(xs) = 0 THEN 0 ELSE Head(xs) + IntSum(Tail(xs))

\* word_counts.sum(axis=0); of the 1-d empty array it is the scalar 0.0,
\* held here as a one-element sequence
ColumnTotals(wc, ncols) ==
    IF Len(wc) = 0 THEN <<0>>
    ELSE [j \in 1..ncols |-> IntSum([b \in 1..Len(wc) |-> wc[b][j]])]

\* faulty variant of ObservedEntropy: p is the word's share of its block, count / block length
ObservedWithinBlock(wc, tot) ==
    IF Len(wc) = 0 THEN <<Zero>>
    ELSE [j \in 1..Len(tot) |->
            RatSum([b \in 1..Len(wc) |-> NanToNum(PLogP(wc[b][j], IntSum(wc[b])))])]

\* np.nan_to_num(p * log_p).sum(axis=0) with p = word_counts / totals
ObservedEntropy(wc, tot) ==
    IF Len(wc) = 0 THEN <<Zero>>
    ELSE [j \in 1..Len(tot) |->
            RatSum([b \in 1..Len(wc) |-> NanToNum(PLogP(wc[b][j], tot[j]))])]

\* ------------------------------------------------ scoring and formatting
\* h += analytic(totals); if weighted: h *= totals / n_words
Combine(hobs, an, tot, nwords, w) ==
    [j \in 1..Len(hobs) |->
        LET sum == RatAdd(hobs[j], an[j])
        IN  IF w THEN RatMul(sum, Rat(tot[j], nwords)) ELSE sum]

\* 1.0e-8 bit is 1 / AutoEpsInv thousandths of a bit
AutoEpsInv == 100000

\* if threshold == 'auto': threshold = n_blocks / (n_blocks + 1.0) + 1.0e-8
ResolveThreshold(t, nblocks) ==
    IF t.auto THEN RatAdd(Rat(1000 * nblocks, nblocks + 1), Rat(1, AutoEpsInv))
    ELSE t.value

\* faulty variant of Passes: score >= threshold, written as not (score < threshold)
PassesOrEqual(score, thr) == ~RatLess(score, thr)

\* the test of the list comprehension
Passes(score, thr) == RatGreater(score, thr)

\* [(word, score) for (word, score) in zip(vocab, h) if score > threshold]
RECURSIVE Filtered(_, _, _)
Filtered(voc, hs, thr) ==
    IF Len(voc) = 0 \/ Len(hs) = 0 THEN << >>
    ELSE (IF Passes(Head(hs), thr) THEN << <<Head(voc), Head(hs)>> >> ELSE << >>)
         \o Filtered(Tail(voc), Tail(hs), thr)

\* key=lambda x: -x[1]
SortKey(x) == RatNeg(x[2])

\* faulty variant of InsertStable: x goes in front of the elements with an equal key
InsertBeforeEqual(s, x) ==
    LET later == { j \in 1..Len(s) : ~RatLess(SortKey(s[j]), SortKey(x)) }
        at == IF later = {} THEN Len(s) + 1
              ELSE CHOOSE j \in later : \A q \in later : j <= q
    IN  SubSeq(s, 1, at - 1) \o <<x>> \o SubSeq(s, at, Len(s))

\* place x behind every element whose key is not greater than its own
InsertStable(s, x) ==
    LET later == { j \in 1..Len(s) : RatLess(SortKey(x), SortKey(s[j])) }
        at == IF later = {} THEN Len(s) + 1
              ELSE CHOOSE j \in later : \A q \in later : j <= q
    IN  SubSeq(s, 1, at - 1) \o <<x>> \o SubSeq(s, at, Len(s))

\* list.sort: stable, ascending in the key
RECURSIVE StableSort(_)
StableSort(xs) ==
    IF Len(xs) = 0 THEN << >>
    ELSE InsertStable(StableSort(SubSeq(xs, 1, Len(xs) - 1)), xs[Len(xs)])

\* faulty variant of Join: a newline after every word, the last one too
RECURSIVE JoinTrailing(_)
JoinTrailing(ws) ==
    IF Len(ws) = 0 THEN << >>
    ELSE ws[1] \o <<NL>> \o JoinTrailing(Tail(ws))

\* '\n'.join(result)
RECURSIVE Join(_)
Join(ws) ==
    IF Len(ws) = 0 THEN << >>
    ELSE IF Len(ws) = 1 THEN ws[1]
    ELSE ws[1] \o <<NL>> \o Join(Tail(ws))

WordsOf(ws) == [j \in 1..Len(ws) |-> ws[j][1]]

\* result = weights if scores else [word ...]; joined unless scores or split
Format(ws, sc, sp) ==
    IF sc THEN ws
    ELSE IF sp THEN WordsOf(ws)
    ELSE Join(WordsOf(ws))

\* ---------------------------------------------------------------- inputs
RECURSIVE SeqsUpTo(_, _)
SeqsUpTo(S, n) ==
    IF n = 0 THEN { << >> }
    ELSE LET shorter == SeqsUpTo(S, n - 1)
         IN  shorter \cup { Append(q, x) : q \in shorter, x \in S }

Repeated(w, n) == [j \in 1..n |-> w]

\* every document of up to MaxLen words, and one word repeated up to MaxRepeat times
Documents ==
    SeqsUpTo(Alphabet, MaxLen) \cup { Repeated(<<"a">>, n) : n \in 1..MaxRepeat }

Blocksizes == (-1)..MaxBlock

Numeric(r) == [auto |-> FALSE, value |-> r]
Auto == [auto |-> TRUE, value |-> Zero]

\* 0.0 (the default), half a bit, minus one bit, and 'auto'
Thresholds == { Numeric(Zero), Numeric(Rat(500, 1)), Numeric(Rat(-1000, 1)), Auto }

\* ----------------------------------------------------------------- state
VARIABLES
    words, blocksize,                       \* arguments read from the first line on
    weighted, threshold, scores, split,     \* arguments read at lines 69-77
    pc,                                     \* position in mz_keywords
    vocab, i, word_counts,                  \* count_freqs_by_blocks
    n_blocks, totals, n_words, h,           \* lines 61-66
    k, cache, analytic, evaluated,          \* analytic(totals), one element at a time
    weights, result, outcome                \* lines 73-78, and how the call ended

vars == <<words, blocksize, weighted, threshold, scores, split, pc, vocab, i,
          word_counts, n_blocks, totals, n_words, h, k, cache, analytic,
          evaluated, weights, result, outcome>>

\* no call of mz_keywords is running
Init ==
    /\ pc = "idle"
    /\ words = << >> /\ blocksize = 0
    /\ weighted = TRUE /\ threshold = Numeric(Zero)
    /\ scores = FALSE /\ split = FALSE
    /\ vocab = << >> /\ i = 0 /\ word_counts = << >>
    /\ n_blocks = 0 /\ totals = << >> /\ n_words = 0 /\ h = << >>
    /\ k = 0 /\ cache = << >> /\ analytic = << >> /\ evaluated = << >>
    /\ weights = << >> /\ result = << >> /\ outcome = "none"

\* mz_keywords(text, blocksize, ...) is called on a tokenized document
Call ==
    /\ pc = "idle"
    /\ words' \in Documents
    /\ blocksize' \in Blocksizes
    /\ pc' = "enter"
    /\ outcome' = "running"
    /\ UNCHANGED <<weighted, threshold, scores, split, vocab, i, word_counts,
                   n_blocks, totals, n_words, h, k, cache, analytic, evaluated,
                   weights, result>>

\* lines 57-59 and 99-101: tokens, vocabulary, word2ind, an empty word_counts
Enter ==
    /\ pc = "enter"
    /\ vocab' = SortedVocab(words)
    /\ word_counts' = << >>
    /\ i' = 0
    /\ pc' = "count"
    /\ UNCHANGED <<words, blocksize, weighted, threshold, scores, split, n_blocks,
                   totals, n_words, h, k, cache, analytic, evaluated, weights,
                   result, outcome>>

\* line 102: range(0, len(words), 0) raises ValueError
RangeZeroStep ==
    /\ pc = "count"
    /\ blocksize = 0
    /\ pc' = "raised"
    /\ outcome' = "ValueError"
    /\ UNCHANGED <<words, blocksize, weighted, threshold, scores, split, vocab, i,
                   word_counts, n_blocks, totals, n_words, h, k, cache, analytic,
                   evaluated, weights, result>>

\* lines 102-106: one iteration of the loop over blocks
CountBlock ==
    /\ pc = "count"
    /\ blocksize > 0
    /\ i < Len(words)
    /\ word_counts' = Append(word_counts, BlockCounts(words, vocab, i, blocksize))
    /\ i' = i + blocksize
    /\ UNCHANGED <<words, blocksize, weighted, threshold, scores, split, pc, vocab,
                   n_blocks, totals, n_words, h, k, cache, analytic, evaluated,
                   weights, result, outcome>>

\* lines 107 and 61-67: the range is exhausted (at once for a negative step);
\* shape, totals, observed entropy, and the closure with its new cache
Stats ==
    /\ pc = "count"
    /\ \/ blocksize > 0 /\ i >= Len(words)
       \/ blocksize < 0
    /\ n_blocks' = Len(word_counts)
    /\ totals' = ColumnTotals(word_counts, Len(vocab))
    /\ n_words' = IntSum(totals')
    /\ h' = ObservedEntropy(word_counts, totals')
    /\ cache' = NewCache(cache)
    /\ analytic' = << >>
    /\ evaluated' = << >>
    /\ k' = 1
    /\ pc' = "analytic"
    /\ UNCHANGED <<words, blocksize, weighted, threshold, scores, split, vocab, i,
                   word_counts, weights, result, outcome>>

\* lines 139-141: analytic_entropy(totals[k]) finds n in the cache
AnalyticCached ==
    /\ pc = "analytic"
    /\ k <= Len(totals)
    /\ totals[k] \in DOMAIN cache
    /\ analytic' = Append(analytic, cache[totals[k]])
    /\ k' = k + 1
    /\ UNCHANGED <<words, blocksize, weighted, threshold, scores, split, pc, vocab,
                   i, word_counts, n_blocks, totals, n_words, h, cache, evaluated,
                   weights, result, outcome>>

\* lines 142-149: n is not in the cache; the formula runs and its result is stored
AnalyticComputed ==
    /\ pc = "analytic"
    /\ k <= Len(totals)
    /\ totals[k] \notin DOMAIN cache
    /\ LET r == AnalyticFormula(blocksize, n_blocks, n_words, totals[k])
       IN  /\ cache' = CacheStore(cache, totals[k], r)
           /\ analytic' = Append(analytic, r)
    /\ evaluated' = Append(evaluated, totals[k])
    /\ k' = k + 1
    /\ UNCHANGED <<words, blocksize, weighted, threshold, scores, split, pc, vocab,
                   i, word_counts, n_blocks, totals, n_words, h, weights, result,
                   outcome>>

\* lines 68-73 with no block counted: analytic(totals) is a bare Python number
\* and h a 0-d scalar, so either .astype (AttributeError) or zip (TypeError)
\* raises, whichever the numpy build reaches first
ScalarRaises ==
    /\ pc = "analytic"
    /\ k > Len(totals)
    /\ Len(word_counts) = 0
    /\ \E exc \in {"AttributeError", "TypeError"} : outcome' = exc
    /\ pc' = "raised"
    /\ UNCHANGED <<words, blocksize, weighted, threshold, scores, split, vocab, i,
                   word_counts, n_blocks, totals, n_words, h, k, cache, analytic,
                   evaluated, weights, result>>

\* lines 68-78: combine, weight, resolve the threshold, filter, sort, format
Finish ==
    /\ pc = "analytic"
    /\ k > Len(totals)
    /\ Len(word_counts) > 0
    /\ \E w \in BOOLEAN, t \in Thresholds, sc \in BOOLEAN, sp \in BOOLEAN :
          /\ weighted' = w
          /\ threshold' = t
          /\ scores' = sc
          /\ split' = sp
          /\ h' = Combine(h, analytic, totals, n_words, w)
          /\ weights' = StableSort(Filtered(vocab, h', ResolveThreshold(t, n_blocks)))
          /\ result' = Format(weights', sc, sp)
    /\ pc' = "returned"
    /\ outcome' = "ok"
    /\ UNCHANGED <<words, blocksize, vocab, i, word_counts, n_blocks, totals,
                   n_words, k, cache, analytic, evaluated>>

\* the call is over, by return or by exception, and its locals are gone.  The
\* dict of the finished closure stays in the state as garbage, to show that
\* nothing of it reaches the next call.
Return ==
    /\ pc \in {"returned", "raised"}
    /\ pc' = "idle"
    /\ words' = << >> /\ blocksize' = 0
    /\ weighted' = TRUE /\ threshold' = Numeric(Zero)
    /\ scores' = FALSE /\ split' = FALSE
    /\ vocab' = << >> /\ i' = 0 /\ word_counts' = << >>
    /\ n_blocks' = 0 /\ totals' = << >> /\ n_words' = 0 /\ h' = << >>
    /\ k' = 0 /\ analytic' = << >> /\ evaluated' = << >>
    /\ weights' = << >> /\ result' = << >> /\ outcome' = "none"
    /\ UNCHANGED cache

Next ==
    \/ Call
    \/ Enter
    \/ RangeZeroStep
    \/ CountBlock
    \/ Stats
    \/ AnalyticCached
    \/ AnalyticComputed
    \/ ScalarRaises
    \/ Finish
    \/ Return

Spec == Init /\ [][Next]_vars

\* ====================================================== properties checked
Terminal == pc \in {"returned", "raised"}
Counted == pc \in {"analytic", "returned"} \/ (pc = "raised" /\ outcome # "ValueError")

\* the text split at every newline, as str.split('\n') does: n newlines give
\* n + 1 pieces, so the empty text gives one empty piece
RECURSIVE SplitNL(_)
SplitNL(str) ==
    LET nls == { j \in 1..Len(str) : str[j] = NL }
    IN  IF nls = {} THEN <<str>>
        ELSE LET at == CHOOSE j \in nls : \A q \in nls : j <= q
             IN  <<SubSeq(str, 1, at - 1)>> \o SplitNL(SubSeq(str, at + 1, Len(str)))

\* the words of the returned value, whatever its format
ReturnedWords ==
    IF scores THEN [j \in 1..Len(result) |-> result[j][1]]
    ELSE IF split THEN result
    ELSE IF Len(result) = 0 THEN << >> ELSE SplitNL(result)

Range(f) == { f[j] : j \in DOMAIN f }
Occurrences(w) == Cardinality({ q \in 1..Len(words) : words[q] = w })
ScoreOf(w) == h[Word2Ind(vocab, w)]
Resolved == ResolveThreshold(threshold, n_blocks)
PassingWords == { vocab[v] : v \in { u \in 1..Len(vocab) : RatGreater(h[u], Resolved) } }

\* C1: the returned value holds exactly the vocabulary words whose combined score
\* is strictly greater than the resolved threshold, each once, and with
\* scores=True each word is paired with its own score, which is > threshold.
ResultIsExactlyAboveThreshold ==
    pc = "returned" =>
        /\ Range(ReturnedWords) = PassingWords
        /\ Len(ReturnedWords) = Cardinality(PassingWords)
        /\ \A j \in 1..Len(ReturnedWords) :
              ~RatLess(ScoreOf(ReturnedWords[j]), Resolved)
              /\ ScoreOf(ReturnedWords[j]) # Resolved
        /\ scores => \A j \in 1..Len(result) :
                        /\ result[j][2] = ScoreOf(result[j][1])
                        /\ RatGreater(result[j][2], Resolved)

\* C1 witness: a call returned some words with their scores and left out a
\* word whose score equals the threshold.
WitnessFilter ==
    /\ pc = "returned" /\ scores
    /\ Len(result) > 0
    /\ \E v \in 1..Len(vocab) : h[v] = Resolved

\* C2: in every output format the returned words come in non-increasing score,
\* and of two returned words with the same score the one earlier in the sorted
\* vocabulary comes first.
ResultSortedStable ==
    pc = "returned" =>
        \A a \in 1..Len(ReturnedWords), b \in 1..Len(ReturnedWords) :
            a < b =>
                /\ ~RatLess(ScoreOf(ReturnedWords[a]), ScoreOf(ReturnedWords[b]))
                /\ ScoreOf(ReturnedWords[a]) = ScoreOf(ReturnedWords[b])
                      => StrLess(ReturnedWords[a], ReturnedWords[b])

\* C2 witness: a joined-string result of three words, two of them tied and the
\* third with a different score, the vocabulary order not being the score order.
WitnessSorted ==
    /\ pc = "returned" /\ ~scores /\ ~split
    /\ Len(ReturnedWords) = 3
    /\ ScoreOf(ReturnedWords[1]) = ScoreOf(ReturnedWords[2])
    /\ RatLess(ScoreOf(ReturnedWords[3]), ScoreOf(ReturnedWords[2]))
    /\ StrLess(ReturnedWords[3], ReturnedWords[1])

CeilDiv(a, b) == (a + b - 1) \div b

\* C3: for a non-empty document and blocksize >= 1 the count matrix has
\* ceil(len/blocksize) rows of len(vocab) cells, and cell (b, w) is the number of
\* positions of block b that hold vocabulary word w; a blocksize above the
\* document length gives one block.
CountMatrixShapeAndCells ==
    (Counted /\ Len(words) > 0 /\ blocksize >= 1) =>
        /\ Len(word_counts) = CeilDiv(Len(words), blocksize)
        /\ blocksize > Len(words) => Len(word_counts) = 1
        /\ \A b \in 1..Len(word_counts) :
              /\ Len(word_counts[b]) = Len(vocab)
              /\ \A w \in 1..Len(vocab) :
                    word_counts[b][w] =
                        Cardinality({ q \in ((b - 1) * blocksize + 1)..Min(b * blocksize, Len(words)) :
                                          words[q] = vocab[w] })

\* C3 witness: two blocks counted, the last one shorter than blocksize, over a
\* vocabulary of more than one word.
WitnessCountMatrix ==
    /\ pc = "analytic"
    /\ Len(word_counts) = 2
    /\ Len(words) % blocksize # 0
    /\ Len(vocab) > 1

\* C4: for blocksize >= 1, each word's column of the count matrix sums to the
\* number of times the word occurs in the document, totals holds those sums, and
\* n_words is the length of the document.
CountsConserved ==
    (Counted /\ blocksize >= 1) =>
        /\ \A w \in 1..Len(vocab) :
              /\ IntSum([b \in 1..Len(word_counts) |-> word_counts[b][w]]) = Occurrences(vocab[w])
              /\ totals[w] = Occurrences(vocab[w])
        /\ n_words = Len(words)

\* C4 witness: a word occurring in more than one block, and another word beside it.
WitnessConserved ==
    /\ pc = "analytic"
    /\ Len(vocab) > 1
    /\ \E w \in 1..Len(vocab) :
          Cardinality({ b \in 1..Len(word_counts) : word_counts[b][w] > 0 }) > 1

\* C5 as stated: the string returned with scores=False, split=False, split at
\* its newlines, is the list returned with scores=False, split=True, also when
\* no word passes the threshold.
JoinedSplitsBackAlways ==
    (pc = "returned" /\ ~scores /\ ~split) =>
        SplitNL(result) = Format(weights, FALSE, TRUE)

\* C5 amended: the round trip holds whenever at least one word passes the
\* threshold; when none does the string is empty and splits into one empty
\* piece, while the list is empty.
JoinedSplitsBackWhenNonEmpty ==
    (pc = "returned" /\ ~scores /\ ~split) =>
        IF Len(weights) > 0
        THEN SplitNL(result) = Format(weights, FALSE, TRUE)
        ELSE /\ Len(result) = 0
             /\ SplitNL(result) = << << >> >>
             /\ Format(weights, FALSE, TRUE) = << >>

\* C5 witness: a joined string of several words, one of them of two characters.
WitnessJoined ==
    /\ pc = "returned" /\ ~scores /\ ~split
    /\ Len(weights) >= 2
    /\ \E j \in 1..Len(weights) : Len(weights[j][1]) = 2

\* C6 as stated: a call on an empty document ends in EmptyDocumentError.
EmptyDocumentFailsExplicitly ==
    (Terminal /\ Len(words) = 0) => outcome = "EmptyDocumentError"

\* C7 as stated: a call with blocksize <= 0 ends in InvalidParameter.
BadBlocksizeFailsExplicitly ==
    (Terminal /\ blocksize <= 0) => outcome = "InvalidParameter"

SingleWord == Len(words) >= 1 /\ Len(vocab) = 1
EightCopies == words = Repeated(<<"a">>, 8) /\ blocksize = 2

\* C8 as stated: for a document of one repeated word the observed-entropy term
\* is exactly 0 and the unweighted score is the analytic entropy.
SingleWordObservedZero ==
    /\ (pc = "analytic" /\ SingleWord) => h[1] = Zero
    /\ (pc = "returned" /\ SingleWord /\ ~weighted) => h[1] = analytic[1]

\* C8 amended: for a document of one repeated word the observed-entropy term is
\* 0 only when the document is a single block and is strictly negative with more
\* blocks (exactly -2 for 8 copies and blocksize 2: four blocks with p = 1/4);
\* the unweighted score is then strictly below the analytic entropy (0 against 2
\* in the example) and equals it only for a single block of exactly blocksize
\* words; with blocksize above the document length both are NaN (or both 0.0
\* for a one-word document).
SingleWordObservedNegative ==
    /\ (pc = "analytic" /\ SingleWord) =>
          /\ n_blocks = 1 => h[1] = Zero
          /\ n_blocks > 1 => RatLess(h[1], Zero)
          /\ EightCopies => h[1] = Rat(-2000, 1)
    /\ (pc = "returned" /\ SingleWord /\ ~weighted) =>
          /\ (n_blocks = 1 /\ IsFinite(analytic[1])) => h[1] = analytic[1]
          /\ (n_blocks = 1 /\ ~IsFinite(analytic[1])) =>
                (blocksize > Len(words) /\ IsNaN(analytic[1]) /\ IsNaN(h[1]))
          /\ n_blocks > 1 => RatLess(h[1], analytic[1])
          /\ EightCopies => (analytic[1] = Rat(2000, 1) /\ h[1] = Zero)

\* C8 witness: the call on 8 copies of one word with blocksize 2 has returned
\* its unweighted scores.
WitnessEightCopies ==
    pc = "returned" /\ EightCopies /\ ~weighted /\ scores /\ n_blocks = 4

\* the sum of the claim, term by term from m = top down to m = 1, with the
\* per-term frequency p = m / d
RECURSIVE TermsUpTo(_, _, _)
TermsUpTo(top, n, d) ==
    IF top < 1 THEN Zero
    ELSE RatAdd(TermsUpTo(top - 1, n, d),
                RatMul(PLogP(top, d), MarginalProb(blocksize, n_words, n, top)))

EntropyBySum(n, d) == RatMul(Rat(-n_blocks, 1), TermsUpTo(Min(blocksize, n), n, d))

\* C9 as stated: for n >= 2 the analytic entropy is the sum over m = 1..min(B, n)
\* of -n_blocks * p*log2(p) * P(m) with p = m / blocksize.
AnalyticUsesBlocksize ==
    pc \in {"analytic", "returned"} =>
        \A j \in 1..Len(analytic) :
            totals[j] >= 2 => analytic[j] = EntropyBySum(totals[j], blocksize)

\* C9 amended: for n >= 2 the analytic entropy is the sum over m = 1..min(B, n)
\* of -n_blocks * p*log2(p) * P(m) with p = m / n, the word's total count.
AnalyticUsesTotal ==
    pc \in {"analytic", "returned"} =>
        \A j \in 1..Len(analytic) :
            totals[j] >= 2 => analytic[j] = EntropyBySum(totals[j], totals[j])

\* C9 witness: a word occurring n >= 2 times, n different from blocksize >= 2, got
\* a finite analytic entropy other than 0.
WitnessAnalytic ==
    /\ pc = "returned"
    /\ \E j \in 1..Len(analytic) :
          /\ totals[j] >= 2 /\ blocksize >= 2 /\ totals[j] # blocksize
          /\ IsFinite(analytic[j]) /\ analytic[j] # Zero

\* C10: within one call, the value returned for a total n is the same on every
\* call of the estimator and is what the formula gives for this call's
\* blocksize, n_blocks and n_words (exactly 0.0 for n = 1, the formula not
\* run); the formula runs at most once per n; and the cache holds {1: 0.0} plus
\* what this call computed, nothing of an earlier call.
CachePerInvocation ==
    pc \in {"analytic", "returned"} =>
        /\ DOMAIN cache = {1} \cup Range(evaluated)
        /\ cache[1] = Zero
        /\ 1 \notin Range(evaluated)
        /\ Cardinality(Range(evaluated)) = Len(evaluated)
        /\ \A n \in Range(evaluated) : cache[n] = EntropyBySum(n, n)
        /\ \A j \in 1..Len(analytic) :
              /\ analytic[j] = IF totals[j] = 1 THEN Zero
                               ELSE EntropyBySum(totals[j], totals[j])
              /\ \A q \in 1..Len(analytic) :
                    totals[j] = totals[q] => analytic[j] = analytic[q]

\* C10 witness: two words share a total n >= 2 whose entropy is not 0, so the
\* second was answered from the cache, and the formula ran once.
WitnessCacheHit ==
    /\ pc = "returned"
    /\ Len(evaluated) = 1
    /\ \E j \in 1..Len(totals) : \E q \in 1..Len(totals) :
          j < q /\ totals[j] = totals[q] /\ totals[j] >= 2 /\ analytic[q] # Zero

====
